---- MODULE Spec2Model ----
(***************************************************************************)
(* Model of the fin-data background job scheduler: JobManager (start,      *)
(* stop, _run_loop, _fetch_with_retry, _send_to_target) in app/jobs.py and *)
(* the request handlers (list_jobs, run_job_once, run_all_jobs_once) and   *)
(* the lifespan in app/main.py.  Every action is one run of a coroutine    *)
(* between two awaits, which is what asyncio executes atomically.          *)
(***************************************************************************)
EXTENDS Integers, Sequences, FiniteSets, TLC

VARIABLES
    apis,       \* config.apis, the descriptors in configuration order
    tasks,      \* JobManager._tasks: job name -> task
    state,      \* JobManager._state: job name -> ApiJobState
    loops,      \* the _run_loop tasks that exist: task -> its position and locals
    handlers,   \* the requests served so far, in order of arrival
    stopping,   \* stop() is suspended in its awaits
    clock,      \* the next value datetime.now() returns
    lifespan,   \* where the lifespan of the application is
    scheduled,  \* history: job name -> scheduled runs started since the process began
    skips       \* history: job names start() found already running

vars == <<apis, tasks, state, loops, handlers, stopping, clock, lifespan,
          scheduled, skips>>

(***************************************************************************)
(* Bounds of the model.                                                    *)
(***************************************************************************)
NumApis == 2
MaxRetries == 2
MaxClock == 3
MaxHandlers == 1

(***************************************************************************)
(* Values.                                                                 *)
(***************************************************************************)
None == "none"
NoTime == 0

JobNames == {"fund_compare", "rates"}
RequestNames == JobNames \cup {"nosuch"}

\* process.py: the transform registry, keyed by job name.
PROCESSORS == {"fund_compare"}

\* A dict of strings is the set of its items, <<key, value>> with one item
\* per key.  NoParams stands for None and for the empty dict, which the
\* code does not tell apart (jobs.py:125, 127; main.py:120).
NoParams == {}

Keys(d) == {p[1] : p \in d}

\* config.py:14-25  ApiConfig, reduced to the fields the scheduler branches
\* on.  The configurations explored give "fund_compare" (the job with a
\* processor) a target, MaxRetries attempts and the static query
\* parameters {a: "1"}, and "rates" no target, no query parameters and one
\* attempt or a max_retries of 0 or -1, which load_config accepts
\* (config.py:73); every descriptor is enabled or not.
RetriesOf(name) == IF name = "fund_compare" THEN {MaxRetries} ELSE {-1, 0, 1}

TargetOf(name) == name = "fund_compare"

QueryParamsOf(name) == IF name = "fund_compare" THEN {<<"a", "1">>} ELSE NoParams

ApiConfig ==
    UNION {{[name |-> n, enabled |-> e, max_retries |-> m,
             target_url |-> TargetOf(n), query_params |-> QueryParamsOf(n)] :
               e \in BOOLEAN, m \in RetriesOf(n)} : n \in JobNames}

\* main.py:108  dict(request.query_params): the query strings a manual
\* trigger is called with.
ExtraParams == {NoParams, {<<"b", "3">>}, {<<"a", "2">>, <<"b", "3">>}}

\* config.py:28-30, 83-86  AppConfig.apis, a non-empty list; load_config does
\* not check that names are unique.
AppConfig == UNION {[1..n -> ApiConfig] : n \in 1..NumApis}

\* jobs.py: ApiJobState.__init__
ApiJobState == [last_run |-> NoTime, last_success |-> NoTime,
                last_error |-> None, run_count |-> 0]

Put(f, k, v) == [x \in DOMAIN f \cup {k} |-> IF x = k THEN v ELSE f[x]]

(***************************************************************************)
(* _fetch_with_retry as a frame: pc is where the coroutine is suspended    *)
(* ("request", "backoff") or how it ended ("returned", "raised"); trace is *)
(* the history of this invocation (requests issued, outcomes observed,     *)
(* backoff sleeps begun); data is the body returned.                       *)
(***************************************************************************)
NoFetch == [pc |-> "idle", attempt |-> 0, trace |-> <<>>, data |-> 0,
            error |-> None, params |-> NoParams]

\* dict.update (jobs.py:129): the items of d with those of e put over them.
Update(d, e) == e \cup {p \in d : p[1] \notin Keys(e)}

\* The merge without the copy of jobs.py:126: params is the descriptor's
\* own dict and update() writes into it.
MergeParams_InPlace(query_params, extra_params) ==
    LET params == Update(query_params, extra_params) IN
    [params |-> params,
     query_params |-> IF query_params # NoParams THEN params ELSE query_params]

\* jobs.py:124-129: the params of the requests, a copy of the descriptor's
\* query_params updated with extra_params, and the descriptor's
\* query_params as the merge leaves them.
MergeParams(query_params, extra_params) ==
    [params |-> Update(query_params, extra_params), query_params |-> query_params]

\* The body of the response to attempt k.
Body(k) == k

\* One attempt too many: range(1, max_retries + 2).
AttemptRange_OneMore(api) == 1..(api.max_retries + 1)

\* jobs.py:131  for attempt in range(1, api_config.max_retries + 1)
AttemptRange(api) == 1..api.max_retries

\* Sleeps after the last failed attempt too: attempt <= max_retries.
MoreAttemptsRemain_Always(attempt, api) == attempt <= api.max_retries

\* jobs.py:150  if attempt < api_config.max_retries
MoreAttemptsRemain(attempt, api) == attempt < api.max_retries

\* _fetch_with_retry falling off its loop into a plain return.
FetchRaise_Returns(f) == [f EXCEPT !.pc = "returned"]

\* jobs.py:153-154: the loop is over; raise the last error.  With no
\* iteration made last_error is None: the assert raises AssertionError, and
\* where asserts are compiled out `raise None` raises TypeError; both are
\* Exceptions, named "assertion_error" here.
FetchRaise(f) ==
    [f EXCEPT !.pc = "raised",
              !.error = IF \E i \in 1..Len(f.trace) : f.trace[i] = "fail"
                        THEN "fetch_error" ELSE "assertion_error"]

\* jobs.py:131-138: enter iteration `attempt` of the for loop, or leave it.
FetchAttempt(f, attempt, api) ==
    IF attempt \in AttemptRange(api)
    THEN [f EXCEPT !.pc = "request", !.attempt = attempt,
                   !.trace = Append(@, "request")]
    ELSE FetchRaise(f)

\* jobs.py:121-138: the call, up to its first await.
FetchCall(api, extra_params) ==
    FetchAttempt([NoFetch EXCEPT !.params =
                    MergeParams(api.query_params, extra_params).params], 1, api)

\* jobs.py:139-151: the awaited request completed (ok: 2xx with a JSON
\* body; otherwise any failure of the attempt).
FetchOnResponse(f, api, ok) ==
    IF ok
    THEN [f EXCEPT !.pc = "returned", !.trace = Append(@, "ok"),
                   !.data = Body(f.attempt)]
    ELSE LET g == [f EXCEPT !.trace = Append(@, "fail")] IN
         IF MoreAttemptsRemain(f.attempt, api)
         THEN [g EXCEPT !.pc = "backoff", !.trace = Append(@, "sleep")]
         ELSE FetchAttempt(g, f.attempt + 1, api)

\* jobs.py:151 -> 131: the backoff sleep is over.
FetchOnWake(f, api) == FetchAttempt(f, f.attempt + 1, api)

(***************************************************************************)
(* JobManager.start                                                        *)
(***************************************************************************)
\* start() without the check for a running job.
AlreadyRunning_Never(name, tk) == FALSE

\* jobs.py:44  if api.name in self._tasks
AlreadyRunning(name, tk) == name \in DOMAIN tk

FreshId(lp) == CHOOSE i \in 1..(Cardinality(DOMAIN lp) + 1) : i \notin DOMAIN lp

\* jobs.py:48  asyncio.create_task(self._run_loop(api)): a task that has not
\* run yet.
NewLoop(i) == [api |-> i, pc |-> "created", cancel |-> FALSE, fetch |-> NoFetch,
               transform |-> None, forward |-> None, runs |-> 0]

\* jobs.py:40-49, from the i-th descriptor on.
\* jobs.py:41  if not api.enabled
StartSkips(api) == ~api.enabled

RECURSIVE StartFrom(_, _, _, _, _)
StartFrom(i, tk, st, lp, sk) ==
    IF i > Len(apis) THEN [tasks |-> tk, state |-> st, loops |-> lp, skips |-> sk]
    ELSE IF StartSkips(apis[i]) THEN StartFrom(i + 1, tk, st, lp, sk)
    ELSE IF AlreadyRunning(apis[i].name, tk)
    THEN StartFrom(i + 1, tk, st, lp, sk \cup {apis[i].name})
    ELSE LET id == FreshId(lp) IN
         StartFrom(i + 1, Put(tk, apis[i].name, id),
                   Put(st, apis[i].name, ApiJobState), Put(lp, id, NewLoop(i)), sk)

StartOp ==
    LET r == StartFrom(1, tasks, state, loops, skips) IN
    /\ tasks' = r.tasks
    /\ state' = r.state
    /\ loops' = r.loops
    /\ skips' = r.skips
    /\ UNCHANGED <<apis, handlers, stopping, clock, scheduled>>

Start == StartOp /\ UNCHANGED lifespan

(***************************************************************************)
(* JobManager.stop                                                         *)
(***************************************************************************)
TaskIds == {tasks[n] : n \in DOMAIN tasks}

\* jobs.py:60-62: cancel every task, then start awaiting them; with no task
\* there is nothing to await and stop() runs to its end (jobs.py:67).  One
\* call of stop() at a time.
StopBeginOp ==
    /\ ~stopping
    /\ loops' = [t \in DOMAIN loops |->
                   IF t \in TaskIds /\ loops[t].pc # "done"
                   THEN [loops[t] EXCEPT !.cancel = TRUE] ELSE loops[t]]
    /\ stopping' = (tasks # <<>>)
    /\ UNCHANGED <<apis, tasks, state, handlers, clock, scheduled, skips>>

\* stop() that does not await the tasks it cancelled.
AllEnded_NoWait(ids) == TRUE

\* jobs.py:62-66  await task, for every task in turn: all of them have ended.
AllEnded(ids) == \A t \in ids : loops[t].pc = "done"

\* jobs.py:62-67: every awaited task has ended; self._tasks.clear().  The
\* ended tasks are dropped from the model with their handles.
StopFinishOp ==
    /\ stopping
    /\ AllEnded(TaskIds)
    /\ tasks' = <<>>
    /\ loops' = [t \in DOMAIN loops \ TaskIds |-> loops[t]]
    /\ stopping' = FALSE
    /\ UNCHANGED <<apis, state, handlers, clock, scheduled, skips>>

StopBegin == StopBeginOp /\ UNCHANGED lifespan
StopFinish == StopFinishOp /\ UNCHANGED lifespan

(***************************************************************************)
(* JobManager._run_loop                                                    *)
(***************************************************************************)
LoopName(t) == apis[loops[t].api].name

\* jobs.py:103-104
RunSucceeded(st, now) == [st EXCEPT !.last_success = now, !.last_error = None]

\* A failure that also wipes the last success.
RunFailed_ClearsSuccess(st, error) ==
    [st EXCEPT !.last_error = error, !.last_success = NoTime]

\* jobs.py:106-107
RunFailed(st, error) == [st EXCEPT !.last_error = error]

\* jobs.py:82-83
RunStarted(st, now) == [st EXCEPT !.last_run = now, !.run_count = @ + 1]

\* The exception of the run leaves the loop and ends the task.
AfterFailure_Exit == "done"

\* jobs.py:106-110: where the loop goes after an exception of the run.
AfterFailure == "sleeping"

\* A run that forwards whether or not a target is configured.
HasTarget_Always(api) == TRUE

\* jobs.py:100, main.py:143  if api_config.target_url
HasTarget(api) == api.target_url

\* jobs.py:88-110 once the fetch has returned: transform, forward or record
\* the success.  l is the loop with its fetch frame already advanced.
LoopAfterFetch(t, l, tok) ==
    LET n == LoopName(t) IN
    IF n \in PROCESSORS /\ ~tok
    THEN /\ loops' = [loops EXCEPT ![t] = [l EXCEPT !.pc = AfterFailure,
                                                   !.transform = "fail"]]
         /\ state' = [state EXCEPT ![n] = RunFailed(@, "transform_error")]
         /\ UNCHANGED clock
    ELSE LET l2 == [l EXCEPT !.transform = IF n \in PROCESSORS THEN "ok" ELSE None] IN
         IF HasTarget(apis[l.api])
         THEN /\ loops' = [loops EXCEPT ![t] = [l2 EXCEPT !.pc = "forwarding",
                                                        !.forward = "pending"]]
              /\ UNCHANGED <<state, clock>>
         ELSE /\ clock < MaxClock
              /\ loops' = [loops EXCEPT ![t] = [l2 EXCEPT !.pc = "sleeping"]]
              /\ state' = [state EXCEPT ![n] = RunSucceeded(@, clock)]
              /\ clock' = clock + 1

\* The loop with its fetch frame at f: suspended in the fetch, or past it.
LoopWithFetch(t, f, tok) ==
    LET l == [loops[t] EXCEPT !.fetch = f] IN
    CASE f.pc = "request" ->
           /\ loops' = [loops EXCEPT ![t] = [l EXCEPT !.pc = "fetching"]]
           /\ UNCHANGED <<state, clock>>
      [] f.pc = "backoff" ->
           /\ loops' = [loops EXCEPT ![t] = [l EXCEPT !.pc = "backoff"]]
           /\ UNCHANGED <<state, clock>>
      [] f.pc = "raised" ->
           /\ loops' = [loops EXCEPT ![t] = [l EXCEPT !.pc = AfterFailure]]
           /\ state' = [state EXCEPT ![LoopName(t)] = RunFailed(@, f.error)]
           /\ UNCHANGED clock
      [] f.pc = "returned" -> LoopAfterFetch(t, l, tok)

\* A loop that starts a run from any await it is suspended in.
AtLoopTop_Anywhere(pc) == pc # "done"

\* jobs.py:81, 110: the task is at the top of `while True`, at its first
\* step or resumed from the interval sleep.
AtLoopTop(pc) == pc \in {"created", "sleeping"}

\* jobs.py:81-87: a run starts, at the task's first step or after the
\* interval sleep of jobs.py:110.
LoopRun(t) ==
    /\ AtLoopTop(loops[t].pc)
    /\ ~loops[t].cancel
    /\ clock < MaxClock
    /\ LET n == LoopName(t)
           f == FetchCall(apis[loops[t].api], NoParams)
           l == [loops[t] EXCEPT !.fetch = f, !.transform = None,
                                 !.forward = None, !.runs = @ + 1]
       IN /\ clock' = clock + 1
          /\ IF f.pc = "raised"
             THEN /\ loops' = [loops EXCEPT ![t] = [l EXCEPT !.pc = AfterFailure]]
                  /\ state' = [state EXCEPT ![n] =
                                 RunFailed(RunStarted(@, clock), f.error)]
             ELSE /\ loops' = [loops EXCEPT ![t] = [l EXCEPT !.pc = "fetching"]]
                  /\ state' = [state EXCEPT ![n] = RunStarted(@, clock)]
          /\ scheduled' = [scheduled EXCEPT ![n] = @ + 1]
    /\ UNCHANGED <<apis, tasks, handlers, stopping, lifespan, skips>>

\* jobs.py:87 resumed: the request of the current attempt completed.
LoopFetchResponse(t) ==
    /\ loops[t].pc = "fetching"
    /\ ~loops[t].cancel
    /\ \E ok \in BOOLEAN, tok \in BOOLEAN :
         LoopWithFetch(t, FetchOnResponse(loops[t].fetch, apis[loops[t].api], ok), tok)
    /\ UNCHANGED <<apis, tasks, handlers, stopping, lifespan, scheduled, skips>>

\* jobs.py:151 resumed: the backoff sleep is over.
LoopBackoffDone(t) ==
    /\ loops[t].pc = "backoff"
    /\ ~loops[t].cancel
    /\ LoopWithFetch(t, FetchOnWake(loops[t].fetch, apis[loops[t].api]), TRUE)
    /\ UNCHANGED <<apis, tasks, handlers, stopping, lifespan, scheduled, skips>>

\* jobs.py:101, 165-170 resumed: the POST to the target completed.
LoopForwardResponse(t) ==
    /\ loops[t].pc = "forwarding"
    /\ ~loops[t].cancel
    /\ LET n == LoopName(t) IN
       \E ok \in BOOLEAN :
         IF ok
         THEN /\ clock < MaxClock
              /\ loops' = [loops EXCEPT ![t].pc = "sleeping", ![t].forward = "ok"]
              /\ state' = [state EXCEPT ![n] = RunSucceeded(@, clock)]
              /\ clock' = clock + 1
         ELSE /\ loops' = [loops EXCEPT ![t].pc = AfterFailure, ![t].forward = "fail"]
              /\ state' = [state EXCEPT ![n] = RunFailed(@, "forward_error")]
              /\ UNCHANGED clock
    /\ UNCHANGED <<apis, tasks, handlers, stopping, lifespan, scheduled, skips>>

\* task.cancel() (jobs.py:61) delivered: CancelledError is raised at the
\* await the task is suspended in; it is not an Exception, so jobs.py:106
\* and jobs.py:141 do not catch it and the task ends.
LoopCancelled(t) ==
    /\ loops[t].cancel
    /\ loops[t].pc # "done"
    /\ loops' = [loops EXCEPT ![t].pc = "done"]
    /\ UNCHANGED <<apis, tasks, state, handlers, stopping, clock, lifespan, scheduled, skips>>

(***************************************************************************)
(* Request handlers of main.py.  A handler is one request being served.    *)
(* requested is the set of descriptors (by position) this handler issued a *)
(* fetch request for; results is the report of run_all_jobs_once.          *)
(***************************************************************************)
\* A lookup that falls back to the first descriptor.
Lookup_Fallback(job_name) ==
    IF \E i \in 1..Len(apis) : apis[i].name = job_name
    THEN CHOOSE i \in 1..Len(apis) :
           /\ apis[i].name = job_name
           /\ \A j \in 1..(i - 1) : apis[j].name # job_name
    ELSE 1

\* main.py:100  next((a for a in config.apis if a.name == job_name), None);
\* 0 stands for None.
Lookup(job_name) ==
    IF \E i \in 1..Len(apis) : apis[i].name = job_name
    THEN CHOOSE i \in 1..Len(apis) :
           /\ apis[i].name = job_name
           /\ \A j \in 1..(i - 1) : apis[j].name # job_name
    ELSE 0

NewHandler(kind, job_name) ==
    [kind |-> kind, job_name |-> job_name, api |-> 0, pc |-> "done",
     extra_params |-> NoParams, fetch |-> NoFetch, forward |-> None,
     requested |-> {}, results |-> <<>>, status_code |-> 0, error |-> None]

Respond(h, code, error) == [h EXCEPT !.pc = "done", !.status_code = code, !.error = error]

\* A manual run that does not count itself.
ManualSucceeded_NoCount(st, now) ==
    [st EXCEPT !.last_run = now, !.last_success = now, !.last_error = None]

\* main.py:160-164
ManualSucceeded(st, now) ==
    [st EXCEPT !.last_run = now, !.last_success = now, !.last_error = None,
               !.run_count = @ + 1]

\* main.py:158-169: the status update of a successful manual run and the
\* 200 response; r is the record of handler k.
RunOnceSucceed(k, r) ==
    LET n == apis[r.api].name IN
    IF n \in DOMAIN state
    THEN /\ clock < MaxClock
         /\ state' = [state EXCEPT ![n] = ManualSucceeded(@, clock)]
         /\ clock' = clock + 1
         /\ handlers' = [handlers EXCEPT ![k] = Respond(r, 200, None)]
    ELSE /\ handlers' = [handlers EXCEPT ![k] = Respond(r, 200, None)]
         /\ UNCHANGED <<state, clock>>

\* A failed manual run that records its error in the Job Status.
RunOnceFailed_Records(hs, k, error) ==
    LET n == apis[hs[k].api].name IN
    /\ handlers' = [hs EXCEPT ![k] = Respond(@, 502, error)]
    /\ state' = IF n \in DOMAIN state
                THEN [state EXCEPT ![n].last_error = error] ELSE state
    /\ UNCHANGED clock

\* main.py:122-131, 151-156: the 502 response of a manual run whose fetch or
\* forward raised; hs is the handlers with handler k at the failure.
RunOnceFailed(hs, k, error) ==
    /\ handlers' = [hs EXCEPT ![k] = Respond(@, 502, error)]
    /\ UNCHANGED <<state, clock>>

\* main.py:116-169 with the fetch frame at f.
RunOnceWithFetch(k, f, tok) ==
    LET r == [handlers[k] EXCEPT !.fetch = f,
                !.requested = IF f.pc = "request" THEN @ \cup {handlers[k].api} ELSE @]
        n == apis[r.api].name
    IN
    CASE f.pc = "request" ->
           /\ handlers' = [handlers EXCEPT ![k] = [r EXCEPT !.pc = "fetching"]]
           /\ UNCHANGED <<state, clock>>
      [] f.pc = "backoff" ->
           /\ handlers' = [handlers EXCEPT ![k] = [r EXCEPT !.pc = "backoff"]]
           /\ UNCHANGED <<state, clock>>
      [] f.pc = "raised" ->
           RunOnceFailed([handlers EXCEPT ![k] = r], k, f.error)
      [] f.pc = "returned" ->
           IF n \in PROCESSORS /\ ~tok
           THEN \* main.py:136: the processor raises; nothing in the handler
                \* catches it and the framework answers 500.
                /\ handlers' = [handlers EXCEPT ![k] = Respond(r, 500, "transform_error")]
                /\ UNCHANGED <<state, clock>>
           ELSE IF HasTarget(apis[r.api])
           THEN \* main.py:144-150
                /\ handlers' = [handlers EXCEPT ![k] =
                                  [r EXCEPT !.pc = "forwarding", !.forward = "pending"]]
                /\ UNCHANGED <<state, clock>>
           ELSE RunOnceSucceed(k, r)

\* run_all_jobs_once without the check of the enabled flag.
RunAllSkips_Never(api) == FALSE

\* main.py:183  if not api_cfg.enabled
RunAllSkips(api) == ~api.enabled

\* main.py:182-204, from the i-th descriptor on, until a fetch suspends or
\* the list ends.  r is the handler's record.
RECURSIVE RunAllFrom(_, _)
RunAllFrom(i, r) ==
    IF i > Len(apis) THEN Respond([r EXCEPT !.api = 0, !.fetch = NoFetch], 200, None)
    ELSE IF RunAllSkips(apis[i]) THEN RunAllFrom(i + 1, r)
    ELSE LET f == FetchCall(apis[i], NoParams) IN
         IF f.pc = "raised"
         THEN RunAllFrom(i + 1, [r EXCEPT !.results = Append(@,
                   [api |-> i, name |-> apis[i].name, status |-> "error",
                    error |-> f.error])])
         ELSE [r EXCEPT !.api = i, !.fetch = f, !.pc = "fetching",
                        !.requested = @ \cup {i}]

\* run_all_jobs_once without the try around the fetch: the exception of an
\* exhausted fetch leaves the handler and the framework answers 500.
RunAllWithFetch_Raises(k, f) ==
    LET r == [handlers[k] EXCEPT !.fetch = f,
                !.requested = IF f.pc = "request" THEN @ \cup {handlers[k].api} ELSE @]
    IN
    /\ handlers' = [handlers EXCEPT ![k] =
         CASE f.pc = "request" -> [r EXCEPT !.pc = "fetching"]
           [] f.pc = "backoff" -> [r EXCEPT !.pc = "backoff"]
           [] f.pc = "raised" -> Respond(r, 500, f.error)
           [] f.pc = "returned" ->
                RunAllFrom(r.api + 1, [r EXCEPT !.results = Append(@,
                    [api |-> r.api, name |-> apis[r.api].name, status |-> "ok",
                     error |-> None])])]
    /\ UNCHANGED <<state, clock>>

\* run_all_jobs_once counting a successful fetch as a run of the job.
RunAllWithFetch_Counts(k, f) ==
    LET r == [handlers[k] EXCEPT !.fetch = f,
                !.requested = IF f.pc = "request" THEN @ \cup {handlers[k].api} ELSE @]
        n == apis[r.api].name
        entry(status, error) == [api |-> r.api, name |-> n,
                                 status |-> status, error |-> error]
    IN
    /\ handlers' = [handlers EXCEPT ![k] =
         CASE f.pc = "request" -> [r EXCEPT !.pc = "fetching"]
           [] f.pc = "backoff" -> [r EXCEPT !.pc = "backoff"]
           [] f.pc = "raised" ->
                RunAllFrom(r.api + 1, [r EXCEPT !.results = Append(@, entry("error", f.error))])
           [] f.pc = "returned" ->
                RunAllFrom(r.api + 1, [r EXCEPT !.results = Append(@, entry("ok", None))])]
    /\ state' = IF f.pc = "returned" /\ n \in DOMAIN state
                THEN [state EXCEPT ![n].run_count = @ + 1] ELSE state
    /\ UNCHANGED clock

\* main.py:186-204 with the fetch frame at f.
RunAllWithFetch(k, f) ==
    LET r == [handlers[k] EXCEPT !.fetch = f,
                !.requested = IF f.pc = "request" THEN @ \cup {handlers[k].api} ELSE @]
        entry(status, error) == [api |-> r.api, name |-> apis[r.api].name,
                                 status |-> status, error |-> error]
    IN
    /\ handlers' = [handlers EXCEPT ![k] =
         CASE f.pc = "request" -> [r EXCEPT !.pc = "fetching"]
           [] f.pc = "backoff" -> [r EXCEPT !.pc = "backoff"]
           [] f.pc = "raised" ->
                RunAllFrom(r.api + 1, [r EXCEPT !.results = Append(@, entry("error", f.error))])
           [] f.pc = "returned" ->
                RunAllFrom(r.api + 1, [r EXCEPT !.results = Append(@, entry("ok", None))])]
    /\ UNCHANGED <<state, clock>>

HandlerWithFetch(k, f, tok) ==
    IF handlers[k].kind = "run_once" THEN RunOnceWithFetch(k, f, tok)
    ELSE RunAllWithFetch(k, f)

\* main.py:95-121: POST /jobs/{job_name}/run-once arrives with the query
\* strings extra_params.  The merge of the fetch works on the descriptor's
\* own query_params object, which every later fetch of the job reads.
RunOnceBegin(job_name, extra_params) ==
    /\ Len(handlers) < MaxHandlers
    /\ LET k == Len(handlers) + 1
           i == Lookup(job_name)
           r == [NewHandler("run_once", job_name) EXCEPT !.api = i]
       IN IF i = 0
          THEN \* main.py:101-105
               /\ handlers' = Append(handlers, Respond(r, 404, "not_found"))
               /\ UNCHANGED <<apis, state, clock>>
          ELSE LET f == FetchCall(apis[i], extra_params)
                   r2 == [r EXCEPT !.extra_params = extra_params, !.fetch = f,
                             !.requested = IF f.pc = "request" THEN {i} ELSE {}]
               IN /\ apis' = [apis EXCEPT ![i].query_params =
                        MergeParams(@, extra_params).query_params]
                  /\ IF f.pc = "raised"
                     THEN RunOnceFailed(Append(handlers, r2), k, f.error)
                     ELSE /\ handlers' = Append(handlers, [r2 EXCEPT !.pc = "fetching"])
                          /\ UNCHANGED <<state, clock>>
    /\ UNCHANGED <<tasks, loops, stopping, lifespan, scheduled, skips>>

\* main.py:175-190: POST /jobs/run-all-once arrives.
RunAllBegin ==
    /\ Len(handlers) < MaxHandlers
    /\ handlers' = Append(handlers, RunAllFrom(1, NewHandler("run_all", None)))
    /\ UNCHANGED <<apis, tasks, state, loops, stopping, clock, lifespan, scheduled, skips>>

\* The awaited request of the handler's fetch completed.
HandlerFetchResponse(k) ==
    /\ handlers[k].pc = "fetching"
    /\ \E ok \in BOOLEAN, tok \in BOOLEAN :
         HandlerWithFetch(k, FetchOnResponse(handlers[k].fetch, apis[handlers[k].api], ok), tok)
    /\ UNCHANGED <<apis, tasks, loops, stopping, lifespan, scheduled, skips>>

\* The backoff sleep of the handler's fetch is over.
HandlerBackoffDone(k) ==
    /\ handlers[k].pc = "backoff"
    /\ HandlerWithFetch(k, FetchOnWake(handlers[k].fetch, apis[handlers[k].api]), TRUE)
    /\ UNCHANGED <<apis, tasks, loops, stopping, lifespan, scheduled, skips>>

\* main.py:146-169 resumed: the POST to the target completed.
HandlerForwardResponse(k) ==
    /\ handlers[k].pc = "forwarding"
    /\ \E ok \in BOOLEAN :
         IF ok
         THEN RunOnceSucceed(k, [handlers[k] EXCEPT !.forward = "ok"])
         ELSE RunOnceFailed([handlers EXCEPT ![k].forward = "fail"], k, "forward_error")
    /\ UNCHANGED <<apis, tasks, loops, stopping, lifespan, scheduled, skips>>

\* main.py:68-89: GET /jobs, the status listing.
RECURSIVE ListFrom(_)
ListFrom(i) ==
    IF i > Len(apis) THEN <<>>
    ELSE IF apis[i].name \notin DOMAIN state THEN ListFrom(i + 1)
    ELSE <<[api |-> i, name |-> apis[i].name, enabled |-> apis[i].enabled,
            status |-> state[apis[i].name]]>> \o ListFrom(i + 1)

list_jobs == ListFrom(1)

(***************************************************************************)
(* The lifespan of the application (main.py:21-39): start() once at        *)
(* startup, requests while serving, stop() once at shutdown.               *)
(***************************************************************************)
\* main.py:31
LifespanStartup ==
    /\ lifespan = "startup"
    /\ StartOp
    /\ lifespan' = "serving"

\* main.py:37: stop() is called
LifespanShutdown ==
    /\ lifespan = "serving"
    /\ StopBeginOp
    /\ lifespan' = IF tasks = <<>> THEN "closed" ELSE "stopping"

\* main.py:37-39: stop() returned
LifespanClosed ==
    /\ lifespan = "stopping"
    /\ StopFinishOp
    /\ lifespan' = "closed"

ServeRunOnce ==
    lifespan = "serving" /\ \E n \in RequestNames, e \in ExtraParams : RunOnceBegin(n, e)

ServeRunAll == lifespan = "serving" /\ RunAllBegin

Init ==
    /\ apis \in AppConfig
    /\ tasks = <<>>
    /\ state = <<>>
    /\ loops = <<>>
    /\ handlers = <<>>
    /\ stopping = FALSE
    /\ clock = 1
    /\ lifespan = "startup"
    /\ scheduled = [n \in JobNames |-> 0]
    /\ skips = {}

Next ==
    \/ Start
    \/ StopBegin
    \/ StopFinish
    \/ \E t \in DOMAIN loops : LoopRun(t)
    \/ \E t \in DOMAIN loops : LoopFetchResponse(t)
    \/ \E t \in DOMAIN loops : LoopBackoffDone(t)
    \/ \E t \in DOMAIN loops : LoopForwardResponse(t)
    \/ \E t \in DOMAIN loops : LoopCancelled(t)
    \/ \E n \in RequestNames, e \in ExtraParams : RunOnceBegin(n, e)
    \/ RunAllBegin
    \/ \E k \in DOMAIN handlers : HandlerFetchResponse(k)
    \/ \E k \in DOMAIN handlers : HandlerBackoffDone(k)
    \/ \E k \in DOMAIN handlers : HandlerForwardResponse(k)

\* The JobManager and the handlers, with start() and stop() called in any order.
Spec == Init /\ [][Next]_vars

NextApp ==
    \/ LifespanStartup
    \/ LifespanShutdown
    \/ LifespanClosed
    \/ ServeRunOnce
    \/ ServeRunAll
    \/ \E t \in DOMAIN loops : LoopRun(t)
    \/ \E t \in DOMAIN loops : LoopFetchResponse(t)
    \/ \E t \in DOMAIN loops : LoopBackoffDone(t)
    \/ \E t \in DOMAIN loops : LoopForwardResponse(t)
    \/ \E t \in DOMAIN loops : LoopCancelled(t)
    \/ \E k \in DOMAIN handlers : HandlerFetchResponse(k)
    \/ \E k \in DOMAIN handlers : HandlerBackoffDone(k)
    \/ \E k \in DOMAIN handlers : HandlerForwardResponse(k)

\* The application: the JobManager driven by the lifespan only.
SpecApp == Init /\ [][NextApp]_vars

(***************************************************************************)
(* Properties.                                                             *)
(***************************************************************************)
CountOf(seq, x) == Cardinality({i \in 1..Len(seq) : seq[i] = x})

\* Every invocation of _fetch_with_retry in progress or ended and not yet
\* replaced, with the descriptor it was called with.
Fetches ==
    {[fetch |-> loops[t].fetch, api |-> apis[loops[t].api]] :
        t \in {u \in DOMAIN loops : loops[u].fetch.pc # "idle"}}
    \cup
    {[fetch |-> handlers[k].fetch, api |-> apis[handlers[k].api]] :
        k \in {j \in DOMAIN handlers : handlers[j].fetch.pc # "idle"}}

\* C1: with max_attempts = N >= 1, one invocation of _fetch_with_retry issues
\* at most N requests; when attempts 1..k-1 failed and attempt k succeeded
\* it has returned the body of attempt k after exactly k requests, and
\* nothing follows the success; when it has failed, exactly N requests were
\* issued and all N failed.
C1_RequestsWithinAttempts ==
    \A c \in Fetches :
      LET f == c.fetch
          N == c.api.max_retries
          k == CountOf(f.trace, "request")
      IN N >= 1 =>
           /\ k <= N
           /\ f.pc = "returned" =>
                /\ CountOf(f.trace, "fail") = k - 1
                /\ CountOf(f.trace, "ok") = 1
                /\ f.trace[Len(f.trace)] = "ok"
                /\ f.data = Body(k)
           /\ f.pc = "raised" =>
                /\ k = N
                /\ CountOf(f.trace, "fail") = N
                /\ CountOf(f.trace, "ok") = 0
           /\ f.pc \in {"request", "backoff"} => CountOf(f.trace, "ok") = 0

\* A fetch returned the body of its second attempt, after one failure.
C1_Witness ==
    \E c \in Fetches :
      /\ c.fetch.pc = "returned"
      /\ CountOf(c.fetch.trace, "request") = 2
      /\ c.fetch.data = Body(2)

\* C2: in one invocation of _fetch_with_retry a backoff sleep follows a
\* failed attempt exactly when another attempt remains: every sleep comes
\* right after a failure and is followed by nothing but the next request,
\* nothing follows a success, and N failing attempts give N-1 sleeps.
C2_BackoffOnlyBetweenAttempts ==
    \A c \in Fetches :
      LET f == c.fetch
          N == c.api.max_retries
          tr == f.trace
          attemptsUpTo(i) == CountOf(SubSeq(tr, 1, i), "request")
      IN /\ \A i \in 1..Len(tr) :
              /\ tr[i] = "sleep" =>
                   /\ i > 1 /\ tr[i - 1] = "fail"
                   /\ IF i < Len(tr) THEN tr[i + 1] = "request" ELSE f.pc = "backoff"
              /\ tr[i] = "fail" =>
                   ((i < Len(tr) /\ tr[i + 1] = "sleep") <=> attemptsUpTo(i) < N)
              /\ tr[i] = "ok" => i = Len(tr)
         /\ f.pc = "raised" /\ N >= 1 => CountOf(tr, "sleep") = N - 1
         /\ f.pc = "returned" => CountOf(tr, "sleep") = CountOf(tr, "request") - 1

\* Two attempts failed with one backoff sleep between them and none after.
C2_Witness ==
    \E c \in Fetches :
      /\ c.fetch.pc = "raised"
      /\ c.fetch.trace = <<"request", "fail", "sleep", "request", "fail">>

\* The step ends a scheduled run of task t: the loop reaches its interval
\* sleep (jobs.py:110), or the task ends, from inside a run.
RunEnds(t) ==
    /\ t \in DOMAIN loops /\ t \in DOMAIN loops'
    /\ ~loops[t].cancel
    /\ loops'[t].pc \in {"sleeping", "done"}
    /\ \/ loops[t].pc \in {"fetching", "backoff", "forwarding"}
       \/ loops'[t].runs # loops[t].runs

\* What the run of loop record l met: the outcomes of its fetch, its
\* transform and its forward.
RunAllSucceeded(l) ==
    /\ l.fetch.pc = "returned"
    /\ l.transform # "fail"
    /\ apis[l.api].target_url => l.forward = "ok"

RunFailure(l) ==
    IF l.fetch.pc = "raised" THEN l.fetch.error
    ELSE IF l.transform = "fail" THEN "transform_error"
    ELSE IF l.forward = "fail" THEN "forward_error"
    ELSE None

\* C3: a scheduled run whose fetch, transform and forward (when a target is
\* configured) all succeeded sets last_success to the time of its end and
\* clears last_error; a run in which one of them failed sets last_error to
\* that failure and leaves last_success as it was.
C3_RunOutcomeRecorded ==
    [][\A t \in DOMAIN loops :
         RunEnds(t) =>
           LET l == loops'[t]
               n == apis[l.api].name
           IN IF RunAllSucceeded(l)
              THEN /\ state'[n].last_success = clock
                   /\ state'[n].last_success > state[n].last_success
                   /\ state'[n].last_error = None
              ELSE /\ RunFailure(l) # None
                   /\ state'[n].last_error = RunFailure(l)
                   /\ state'[n].last_success = state[n].last_success]_vars

\* A scheduled run whose forward failed recorded the failure and kept the
\* earlier success.
C3_Witness ==
    \E t \in DOMAIN loops :
      LET n == apis[loops[t].api].name IN
      /\ loops[t].pc = "sleeping"
      /\ loops[t].forward = "fail"
      /\ state[n].last_error = "forward_error"
      /\ state[n].last_success # NoTime

\* C4: no failure of a scheduled run ends the loop: a task ends only when
\* stop() has cancelled it, a loop whose run has failed is in its interval
\* sleep, and from the interval sleep the next step of the loop is another
\* run (as far as the clock of the model reaches).
C4_FailureKeepsLoop ==
    \A t \in DOMAIN loops :
      /\ loops[t].pc = "done" => loops[t].cancel
      /\ RunFailure(loops[t]) # None /\ ~loops[t].cancel => loops[t].pc = "sleeping"
      /\ loops[t].pc = "sleeping" /\ ~loops[t].cancel /\ clock < MaxClock
           => ENABLED LoopRun(t)

\* A loop is in a second run after its first run failed.
C4_Witness ==
    \E t \in DOMAIN loops :
      LET n == apis[loops[t].api].name IN
      /\ loops[t].runs = 2
      /\ loops[t].pc = "fetching"
      /\ ~loops[t].cancel
      /\ state[n].last_error # None
      /\ state[n].last_success = NoTime

\* The manual triggers of job n that completed successfully.
ManualOk(n) ==
    Cardinality({k \in DOMAIN handlers :
                   /\ handlers[k].kind = "run_once"
                   /\ handlers[k].job_name = n
                   /\ handlers[k].status_code = 200})

\* C5: in the application, whatever the interleaving of a job's loop with
\* manual triggers, run_count is the number of scheduled runs started plus
\* the number of manual triggers that completed successfully.
C5_RunCountIsSum ==
    \A n \in DOMAIN state : state[n].run_count = scheduled[n] + ManualOk(n)

\* A job counts one scheduled run and one successful manual trigger.
C5_Witness ==
    \E n \in DOMAIN state :
      /\ scheduled[n] = 1
      /\ ManualOk(n) = 1
      /\ state[n].run_count = 2

\* C6: run_count never decreases and a Job Status entry is never removed or
\* reset, whatever the sequence of start(), stop(), scheduled runs and
\* manual triggers.
C6_StatusNeverReset ==
    [][\A n \in DOMAIN state :
         /\ n \in DOMAIN state'
         /\ state'[n].run_count >= state[n].run_count
         /\ state'[n].last_run >= state[n].last_run]_vars

\* The loops of job n that have not ended.
LiveLoops(n) == {t \in DOMAIN loops : apis[loops[t].api].name = n /\ loops[t].pc # "done"}

\* C7: start() is idempotent per job: there is never more than one loop of
\* a job name that has not ended, every such loop is the one the job's
\* handle names, and a start() that finds a job running leaves its handle,
\* its loop and its Job Status as they are.
C7_StartIdempotent ==
    /\ [](\A n \in JobNames :
            /\ Cardinality(LiveLoops(n)) <= 1
            /\ \A t \in LiveLoops(n) : n \in DOMAIN tasks /\ tasks[n] = t)
    /\ [][\A n \in skips' \ skips :
            n \in DOMAIN tasks =>
              /\ tasks'[n] = tasks[n]
              /\ loops'[tasks[n]] = loops[tasks[n]]
              /\ state'[n] = state[n]
              /\ DOMAIN loops' = DOMAIN loops]_vars

\* A later start() found the only job running; its one loop and the run it
\* had counted are still there.
C7_Witness ==
    /\ Len(apis) = 1
    /\ apis[1].name \in skips
    /\ Cardinality(LiveLoops(apis[1].name)) = 1
    /\ state[apis[1].name].run_count = 1

\* Job names all of whose descriptors are disabled.
DisabledJob(n) ==
    /\ \E i \in 1..Len(apis) : apis[i].name = n
    /\ \A i \in 1..Len(apis) : apis[i].name = n => ~apis[i].enabled

\* C8: a disabled job has no Job Status entry and no handle, is absent from
\* the status listing, has no loop and no scheduled run, and run_all_once
\* issues no request and adds no report entry for a disabled descriptor.
C8_DisabledJobAbsent ==
    /\ \A n \in JobNames :
         DisabledJob(n) =>
           /\ n \notin DOMAIN state
           /\ n \notin DOMAIN tasks
           /\ \A i \in 1..Len(list_jobs) : list_jobs[i].name # n
           /\ \A t \in DOMAIN loops : apis[loops[t].api].name # n
           /\ scheduled[n] = 0
           /\ \A k \in DOMAIN handlers :
                handlers[k].kind = "run_all" =>
                  \A j \in 1..Len(handlers[k].results) : handlers[k].results[j].name # n
    /\ \A k \in DOMAIN handlers :
         handlers[k].kind = "run_all" =>
           /\ \A i \in handlers[k].requested : apis[i].enabled
           /\ \A j \in 1..Len(handlers[k].results) :
                apis[handlers[k].results[j].api].enabled
           /\ handlers[k].status_code \in {0, 200}

\* run_all_once completed over a disabled and a started enabled job and
\* reports the enabled one only.
C8_Witness ==
    /\ \E n \in JobNames : DisabledJob(n)
    /\ tasks # <<>>
    /\ \E k \in DOMAIN handlers :
         /\ handlers[k].kind = "run_all"
         /\ handlers[k].status_code = 200
         /\ Len(handlers[k].results) = 1

KnownJob(n) == \E i \in 1..Len(apis) : apis[i].name = n

\* C9: run_once with a name no descriptor carries answers not found, issues
\* no fetch and no forward request, and leaves every Job Status unchanged.
C9_UnknownJobNotFound ==
    /\ [](\A k \in DOMAIN handlers :
            handlers[k].kind = "run_once" /\ ~KnownJob(handlers[k].job_name) =>
              /\ handlers[k].status_code = 404
              /\ handlers[k].pc = "done"
              /\ handlers[k].requested = {}
              /\ handlers[k].fetch = NoFetch
              /\ handlers[k].forward = None)
    /\ [][Len(handlers') > Len(handlers)
            /\ handlers'[Len(handlers')].kind = "run_once"
            /\ ~KnownJob(handlers'[Len(handlers')].job_name)
          => state' = state]_vars

\* An unknown name was answered not found while a job has a status with a
\* run counted.
C9_Witness ==
    /\ \E k \in DOMAIN handlers :
         /\ handlers[k].kind = "run_once"
         /\ ~KnownJob(handlers[k].job_name)
         /\ handlers[k].status_code = 404
    /\ \E n \in DOMAIN state : state[n].run_count > 0

\* C10: run_once with the name of a configured but disabled job answers not
\* found and issues no fetch and no forward request.
C10_DisabledJobNotFound ==
    \A k \in DOMAIN handlers :
      handlers[k].kind = "run_once" /\ DisabledJob(handlers[k].job_name) =>
        /\ handlers[k].status_code = 404
        /\ handlers[k].requested = {}
        /\ handlers[k].forward = None

\* The step is one of handler k (its arrival included).
HandlerSteps(k) == k \notin DOMAIN handlers \/ handlers'[k] # handlers[k]

\* C11: a run_once whose fetch exhausted its attempts or whose forward
\* failed has answered 502 with the failure, the message of a forward
\* failure differing from that of a fetch failure, and no step of a
\* run_once that does not end in success changes any Job Status.
C11_FailedRunOnceKeepsStatus ==
    /\ [](\A k \in DOMAIN handlers :
            LET h == handlers[k] IN
            h.kind = "run_once" /\ h.pc = "done" =>
              /\ h.fetch.pc = "raised" =>
                   /\ h.status_code = 502
                   /\ h.error = h.fetch.error
                   /\ h.error # "forward_error"
                   /\ h.forward = None
              /\ h.forward = "fail" =>
                   /\ h.status_code = 502
                   /\ h.error = "forward_error"
                   /\ h.fetch.pc = "returned"
              /\ h.status_code = 502 => h.fetch.pc = "raised" \/ h.forward = "fail")
    /\ [][\A k \in DOMAIN handlers' :
            /\ HandlerSteps(k)
            /\ handlers'[k].kind = "run_once"
            /\ handlers'[k].status_code # 200
            => state' = state]_vars

\* A manual run answered 502 for a failed forward while its job has a
\* status with a scheduled run recorded as successful.
C11_Witness ==
    \E k \in DOMAIN handlers :
      LET h == handlers[k] IN
      /\ h.kind = "run_once"
      /\ h.status_code = 502
      /\ h.forward = "fail"
      /\ h.job_name \in DOMAIN state
      /\ state[h.job_name].run_count = 1
      /\ state[h.job_name].last_success # NoTime
      /\ state[h.job_name].last_error = None

\* The positions of the enabled descriptors among the first n, in
\* configuration order.
RECURSIVE EnabledUpTo(_)
EnabledUpTo(n) ==
    IF n = 0 THEN <<>>
    ELSE IF apis[n].enabled THEN Append(EnabledUpTo(n - 1), n)
    ELSE EnabledUpTo(n - 1)

\* C12: run_all_once never raises and completes with a report: it is always
\* either suspended in a fetch that can go on or answered with 200; the
\* report built so far holds one entry, ok or error, for each enabled
\* descriptor already dealt with, in configuration order, and the complete
\* report one for each enabled descriptor; after a failed fetch the later
\* enabled descriptors are fetched all the same.
C12_RunAllAlwaysReports ==
    \A k \in DOMAIN handlers :
      LET h == handlers[k]
          dealt == IF h.pc = "done" THEN EnabledUpTo(Len(apis))
                   ELSE EnabledUpTo(h.api - 1)
      IN h.kind = "run_all" =>
           /\ h.status_code = IF h.pc = "done" THEN 200 ELSE 0
           /\ h.pc \in {"done", "fetching", "backoff"}
           /\ h.pc = "fetching" => ENABLED HandlerFetchResponse(k)
           /\ h.pc = "backoff" => ENABLED HandlerBackoffDone(k)
           /\ h.pc # "done" => h.api \in 1..Len(apis) /\ apis[h.api].enabled
           /\ Len(h.results) = Len(dealt)
           /\ \A j \in 1..Len(h.results) :
                /\ h.results[j].api = dealt[j]
                /\ h.results[j].name = apis[dealt[j]].name
                /\ h.results[j].status \in {"ok", "error"}
                /\ h.results[j].status = "ok" <=> h.results[j].error = None
           /\ \A j \in 1..Len(dealt) :
                apis[dealt[j]].max_retries >= 1 => dealt[j] \in h.requested

\* A complete report of two entries, the first an error and the second ok.
C12_Witness ==
    \E k \in DOMAIN handlers :
      LET h == handlers[k] IN
      /\ h.kind = "run_all"
      /\ h.status_code = 200
      /\ Len(h.results) = 2
      /\ h.results[1].status = "error"
      /\ h.results[2].status = "ok"
      /\ h.requested = {1, 2}

\* C13: no step of run_all_once, from its arrival to its report, changes
\* the Job Status of any job, whether the fetch of the step succeeded or
\* failed.
C13_RunAllKeepsStatus ==
    [][\A k \in DOMAIN handlers' :
         HandlerSteps(k) /\ handlers'[k].kind = "run_all" => state' = state]_vars

\* run_all_once reported an ok and an error for two started jobs, both
\* with a scheduled run counted and none recorded as failed.
C13_Witness ==
    \E k \in DOMAIN handlers :
      LET h == handlers[k] IN
      /\ h.kind = "run_all"
      /\ h.status_code = 200
      /\ \E i, j \in 1..Len(h.results) :
           h.results[i].status = "ok" /\ h.results[j].status = "error"
      /\ \A j \in 1..Len(h.results) :
           /\ h.results[j].name \in DOMAIN state
           /\ state[h.results[j].name].run_count = 1
           /\ state[h.results[j].name].last_error = None

\* Some step of the loop of task t can be taken.
LoopCanStep(t) ==
    \/ ENABLED LoopRun(t)
    \/ ENABLED LoopFetchResponse(t)
    \/ ENABLED LoopBackoffDone(t)
    \/ ENABLED LoopForwardResponse(t)
    \/ ENABLED LoopCancelled(t)

\* C14: stop() returns only when every task it cancelled has ended, and
\* then the scheduler holds no handle and no loop that could take a step:
\* while stop() waits every handle's task is cancelled, a cancelled task
\* can end from wherever it is suspended and can do nothing else, a task
\* that has ended takes no step, and no loop runs without a handle.
C14_StopAwaitsLoops ==
    /\ [](\A t \in DOMAIN loops :
            /\ loops[t].pc # "done" => t \in TaskIds
            /\ loops[t].pc = "done" => ~LoopCanStep(t)
            /\ stopping /\ t \in TaskIds => loops[t].cancel
            /\ loops[t].cancel /\ loops[t].pc # "done" =>
                 /\ ENABLED LoopCancelled(t)
                 /\ ~ENABLED LoopRun(t)
                 /\ ~ENABLED LoopFetchResponse(t)
                 /\ ~ENABLED LoopBackoffDone(t)
                 /\ ~ENABLED LoopForwardResponse(t))
    /\ [][stopping /\ ~stopping' =>
            /\ \A t \in TaskIds : loops[t].pc = "done"
            /\ tasks' = <<>>
            /\ \A t \in DOMAIN loops' : ~LoopCanStep(t)']_vars

\* stop() has returned after cancelling a loop whose run was in flight:
\* the run is counted and no outcome of it is recorded.
C14_Witness ==
    /\ ~stopping
    /\ tasks = <<>>
    /\ loops = <<>>
    /\ handlers = <<>>
    /\ \E n \in DOMAIN state :
         /\ scheduled[n] = 1
         /\ state[n].run_count = 1
         /\ state[n].last_success = NoTime
         /\ state[n].last_error = None

\* C15: a task that has ended after starting a scheduled run has seen that
\* run to its end: the run succeeded as a whole or met a failure, and the
\* Job Status holds the outcome (cancellation did not abort the run while
\* its request, its backoff sleep or its forward was in flight).
C15_CancelKeepsRunInFlight ==
    \A t \in DOMAIN loops :
      loops[t].pc = "done" /\ loops[t].runs > 0 =>
        LET l == loops[t]
            n == apis[l.api].name
        IN \/ RunAllSucceeded(l) /\ state[n].last_success # NoTime
           \/ RunFailure(l) # None /\ state[n].last_error # None

\* The value the dict d holds for key x.
ValueOf(d, x) == CHOOSE v \in {p[2] : p \in d} : <<x, v>> \in d

\* C16: the params of a manual fetch hold, for every key of the caller's
\* extra parameters, the caller's value, for every other key of the
\* configured static parameters the configured value, and no other key
\* (static {a: "1"} with extra {a: "2", b: "3"} gives {a: "2", b: "3"});
\* the descriptors keep the query parameters of the configuration; every
\* scheduled fetch and every fetch of run_all_once uses exactly those.
C16_ExtraOverridesStatic ==
    /\ \A i \in 1..Len(apis) : apis[i].query_params = QueryParamsOf(apis[i].name)
    /\ \A t \in DOMAIN loops :
         loops[t].fetch.pc # "idle" =>
           loops[t].fetch.params = QueryParamsOf(apis[loops[t].api].name)
    /\ \A k \in DOMAIN handlers :
         LET h == handlers[k] IN
         h.fetch.pc # "idle" =>
           LET static == QueryParamsOf(apis[h.api].name)
               params == h.fetch.params
           IN /\ h.kind = "run_all" => params = static
              /\ Keys(params) = Keys(static) \cup Keys(h.extra_params)
              /\ Cardinality(params) = Cardinality(Keys(params))
              /\ \A x \in Keys(params) :
                   ValueOf(params, x) = IF x \in Keys(h.extra_params)
                                        THEN ValueOf(h.extra_params, x)
                                        ELSE ValueOf(static, x)
              /\ static = {<<"a", "1">>}
                   /\ h.extra_params = {<<"a", "2">>, <<"b", "3">>}
                   => params = {<<"a", "2">>, <<"b", "3">>}

\* A manual trigger with extra {a: "2", b: "3"} of the job with static
\* {a: "1"} fetched with {a: "2", b: "3"} and succeeded; the scheduled run
\* that started after it fetches with {a: "1"}.
C16_Witness ==
    \E k \in DOMAIN handlers, t \in DOMAIN loops :
      LET h == handlers[k]
          n == h.job_name
      IN /\ h.kind = "run_once"
         /\ h.status_code = 200
         /\ h.extra_params = {<<"a", "2">>, <<"b", "3">>}
         /\ h.fetch.params = {<<"a", "2">>, <<"b", "3">>}
         /\ apis[loops[t].api].name = n
         /\ apis[loops[t].api].query_params = {<<"a", "1">>}
         /\ loops[t].pc = "fetching"
         /\ loops[t].fetch.params = {<<"a", "1">>}
         /\ state[n].last_success # NoTime
         /\ state[n].last_run > state[n].last_success

\* C17: a status query never observes part of an attempt's update: every
\* Job Status the listing returns with a run counted carries the outcome
\* of its latest run, an error or a success no older than last_run.
C17_StatusNeverTorn ==
    \A j \in 1..Len(list_jobs) :
      LET st == list_jobs[j].status IN
      st.run_count > 0 => st.last_error # None \/ st.last_success >= st.last_run

\* The run of loop record l is in flight: started and not yet at its end.
InFlight(l) == l.pc \in {"fetching", "backoff", "forwarding"}

\* C18: the scheduled runs of a job are sequential: a loop is in its
\* interval sleep only with the outcome of its latest run met, a run that
\* ends, in success or in failure, leaves the loop in the interval sleep, a
\* run starts only at the task's first step or out of the interval sleep
\* that followed the previous run, and at no time two runs of one job are
\* in flight.
C18_RunsSequential ==
    /\ [](/\ \A t \in DOMAIN loops :
              LET l == loops[t] IN
              /\ l.pc = "sleeping" => RunAllSucceeded(l) \/ RunFailure(l) # None
              /\ l.pc = "created" <=> l.runs = 0 /\ l.pc # "done"
              /\ InFlight(l) => ~RunAllSucceeded(l) /\ RunFailure(l) = None
          /\ \A n \in JobNames :
               Cardinality({u \in DOMAIN loops : LoopName(u) = n /\ InFlight(loops[u])}) <= 1)
    /\ [][\A t \in DOMAIN loops \cap DOMAIN loops' :
            /\ loops'[t].runs # loops[t].runs =>
                 /\ loops'[t].runs = loops[t].runs + 1
                 /\ loops[t].pc = IF loops[t].runs = 0 THEN "created" ELSE "sleeping"
                 /\ ~InFlight(loops[t])
            /\ RunEnds(t) => loops'[t].pc = "sleeping"]_vars

\* A loop started its second run out of the interval sleep that followed a
\* failed first run.
C18_Witness ==
    \E t \in DOMAIN loops :
      /\ loops[t].runs = 2
      /\ InFlight(loops[t])
      /\ ~loops[t].cancel
      /\ state[LoopName(t)].run_count = 2
      /\ state[LoopName(t)].last_error = "fetch_error"

\* The runs in progress or ended and not yet replaced: those of the loops
\* and those of the manual triggers, now and after the step.
Runs ==
    {[of |-> <<"loop", t>>, api |-> loops[t].api, run |-> loops[t].runs,
      fetch |-> loops[t].fetch, transform |-> loops[t].transform,
      forward |-> loops[t].forward] : t \in DOMAIN loops}
    \cup
    {[of |-> <<"handler", k>>, api |-> handlers[k].api, run |-> 1,
      fetch |-> handlers[k].fetch, transform |-> None,
      forward |-> handlers[k].forward] :
        k \in {j \in DOMAIN handlers : handlers[j].kind = "run_once" /\ handlers[j].api # 0}}

\* C19: a run has issued a POST to the target only with a target
\* configured, its fetch returned and its transform not failed, and none
\* with its fetch exhausted; a POST is issued only by a run that has issued
\* none yet, so that no run issues two and a failed POST is not repeated.
C19_ForwardOnceAfterFetch ==
    /\ [](\A r \in Runs :
            /\ r.forward # None =>
                 /\ apis[r.api].target_url
                 /\ r.fetch.pc = "returned"
                 /\ r.transform # "fail"
            /\ r.fetch.pc # "returned" => r.forward = None)
    /\ [][\A r \in Runs' :
            r.forward = "pending" /\ r \notin Runs =>
              \A q \in Runs : q.of = r.of /\ q.run = r.run => q.forward = None]_vars

\* A scheduled run and a manual run each issued their one POST after a
\* fetch that succeeded at its second attempt; the POST of the scheduled
\* run failed and was not repeated.
C19_Witness ==
    /\ \E t \in DOMAIN loops :
         /\ loops[t].forward = "fail"
         /\ loops[t].pc = "sleeping"
         /\ CountOf(loops[t].fetch.trace, "request") = 2
    /\ \E k \in DOMAIN handlers :
         /\ handlers[k].kind = "run_once"
         /\ handlers[k].forward = "ok"
         /\ CountOf(handlers[k].fetch.trace, "request") = 2

\* C20: with max_retries <= 0 an invocation of _fetch_with_retry has issued
\* no request and has raised an error without returning data; a loop of
\* such a descriptor that has run is in its interval sleep (or cancelled)
\* with that failure as the outcome of its run and goes on to the next
\* run, and, unless a manual trigger of the job succeeded, the Job Status
\* holds the error as last_error and no last_success.
C20_NoAttemptsAlwaysFails ==
    /\ \A c \in Fetches :
         c.api.max_retries <= 0 =>
           /\ c.fetch.pc = "raised"
           /\ c.fetch.trace = <<>>
           /\ c.fetch.error = "assertion_error"
           /\ c.fetch.data = NoFetch.data
    /\ \A t \in DOMAIN loops :
         LET l == loops[t]
             n == LoopName(t)
         IN apis[l.api].max_retries <= 0 /\ l.runs > 0 =>
              /\ l.pc \in {"sleeping", "done"}
              /\ l.pc = "done" => l.cancel
              /\ RunFailure(l) = "assertion_error"
              /\ ~RunAllSucceeded(l)
              /\ l.pc = "sleeping" /\ ~l.cancel /\ clock < MaxClock => ENABLED LoopRun(t)
              /\ ManualOk(n) = 0 =>
                   /\ state[n].last_error = "assertion_error"
                   /\ state[n].last_success = NoTime
                   /\ state[n].run_count = l.runs

\* The loop of a descriptor with max_retries = 0 is in the interval sleep
\* after its second run, both runs failed without a request.
C20_Witness ==
    \E t \in DOMAIN loops :
      /\ apis[loops[t].api].max_retries = 0
      /\ loops[t].runs = 2
      /\ loops[t].pc = "sleeping"
      /\ loops[t].fetch.trace = <<>>
      /\ state[LoopName(t)].run_count = 2
      /\ state[LoopName(t)].last_error = "assertion_error"
      /\ state[LoopName(t)].last_success = NoTime

TypeOK == clock \in 1..MaxClock
====
